---------------------------- MODULE Spec2Model ----------------------------
(***************************************************************************)
(* semigrate: semantically versioned migrations on a PostgreSQL database.  *)
(*                                                                         *)
(* The model follows migrate.js (src/unnamed/part_000).  One run of        *)
(* semigrate() is a promise chain                                          *)
(*   connect -> initialize -> reset? -> migrate? -> load -> finish|dry     *)
(*           -> check -> fin(callback)                                     *)
(* Every action below is one turn of that chain: a handler issuing its     *)
(* statements to the session, or the completion of the statement at the    *)
(* head of the session's queue (the pg client runs queued statements one   *)
(* at a time, in the order they were issued).                              *)
(*                                                                         *)
(* A version is <<major, minor, patch>>: parseMigrationSpec keeps          *)
(* semver.valid(prefix), which is the normalised x.y.z text: the prefix    *)
(* ends at the first '-', which leaves no room for a prerelease tag, and   *)
(* semver.valid drops build metadata.                                      *)
(***************************************************************************)
EXTENDS Integers, Sequences, FiniteSets, TLC

\* Bounds of the model.
MaxRuns == 2
MaxLoad == 2
MaxVer == 5

\* JavaScript null, and the value Q.all([ROLLBACK, BEGIN]) resolves to:
\* the array of the two statements' (empty) row arrays, [[], []].
Null == <<>>
RecoveryRows == << <<>>, <<>> >>

---------------------------------------------------------------------------
(* semver *)

IsVersion(v) == Len(v) = 3

\* semver.compare on x.y.z versions: -1, 0 or 1.
SemverCompare(a, b) ==
  IF a[1] # b[1] THEN (IF a[1] < b[1] THEN -1 ELSE 1)
  ELSE IF a[2] # b[2] THEN (IF a[2] < b[2] THEN -1 ELSE 1)
  ELSE IF a[3] # b[3] THEN (IF a[3] < b[3] THEN -1 ELSE 1)
  ELSE 0

SemverGt(a, b) == SemverCompare(a, b) > 0

SemverEq(a, b) == SemverCompare(a, b) = 0

\* semver.maxSatisfying(versions, '*'): the greatest version, null if none.
MaxSatisfying(versions) ==
  IF versions = {} THEN Null
  ELSE CHOOSE v \in versions : \A w \in versions : SemverCompare(v, w) >= 0

\* Mutants of the caret range.
SemverSatisfiesCaret_SameMajor(v, t) ==
  SemverCompare(v, t) >= 0 /\ v[1] = t[1]

SemverSatisfiesCaret_Gte(v, t) ==
  SemverCompare(v, t) >= 0

\* semver.satisfies(v, '^' + t).  The caret range allows changes that do not
\* modify the left-most non-zero component of t:
\*   ^M.m.p (M > 0)  :=  >=M.m.p <(M+1).0.0
\*   ^0.m.p (m > 0)  :=  >=0.m.p <0.(m+1).0
\*   ^0.0.p          :=  >=0.0.p <0.0.(p+1)
SemverSatisfiesCaret(v, t) ==
  LET upper == IF t[1] > 0 THEN <<t[1] + 1, 0, 0>>
               ELSE IF t[2] > 0 THEN <<0, t[2] + 1, 0>>
               ELSE <<0, 0, t[3] + 1>>
  IN  SemverCompare(v, t) >= 0 /\ SemverCompare(v, upper) < 0

---------------------------------------------------------------------------
(* check: the verdict on the detected version against the catalog's maximum *)

\* Mutant: the out-of-date test also rejects an equal version.
CheckOutcome_GteOutOfDate(lastMigration, version) ==
  IF version = Null THEN "OutOfDate"
  ELSE IF lastMigration = Null THEN "TypeError"
  ELSE IF SemverCompare(lastMigration, version) >= 0 THEN "OutOfDate"
  ELSE IF SemverSatisfiesCaret(version, lastMigration) THEN "Compatible"
  ELSE "Incompatible"

\* check(lastMigration), lines 326-335.  semver.gt(null, version) throws a
\* TypeError (Invalid Version: null) when the catalog is empty.
CheckOutcome(lastMigration, version) ==
  IF version = Null THEN "OutOfDate"
  ELSE IF lastMigration = Null THEN "TypeError"
  ELSE IF SemverGt(lastMigration, version) THEN "OutOfDate"
  ELSE IF SemverEq(lastMigration, version) THEN "UpToDate"
  ELSE IF SemverSatisfiesCaret(version, lastMigration) THEN "Compatible"
  ELSE "Incompatible"

CheckSucceeds(outcome) == outcome \in {"UpToDate", "Compatible"}

---------------------------------------------------------------------------
(* The migration directory: parseMigrationSpec and list *)

\* A directory entry: the text before the first '-' of its name (lead
\* character and numeric parts), whether the name has a '-' at all, whether
\* it is a directory, its extension, and the extensions of its children in
\* directory-listing order.
Entry(name, lead, parts, dash, dir, ext, children) ==
  [name |-> name, lead |-> lead, parts |-> parts, dash |-> dash,
   dir |-> dir, ext |-> ext, children |-> children]

\* The entries a migration directory may hold.
Entries ==
  { Entry("0.9.0-initial-schema", "", <<0, 9, 0>>, TRUE, TRUE, "", <<"sql", "js", "txt">>),
    Entry("1.0.0-production.sql", "", <<1, 0, 0>>, TRUE, FALSE, "sql", <<>>),
    Entry("v1.0.0-hotfix.js", "v", <<1, 0, 0>>, TRUE, FALSE, "js", <<>>),
    Entry("README.md", "R", <<>>, FALSE, FALSE, "md", <<>>),
    Entry("1.2-draft.sql", "", <<1, 2>>, TRUE, FALSE, "sql", <<>>),
    Entry("1.5.0-notes.txt", "", <<1, 5, 0>>, TRUE, FALSE, "txt", <<>>) }

\* validMigrationType, lines 87-90.
ValidMigrationType(ext) == ext = "sql" \/ ext = "js"

\* semver.valid(text): the normalised version (a leading 'v' or '=' is
\* dropped), null when the text is no x.y.z version.
SemverValid(lead, parts) ==
  IF lead \in {"", "v", "="} /\ Len(parts) = 3 THEN parts ELSE Null

\* The elements of a sequence that satisfy validMigrationType, in order.
RECURSIVE FilterValid(_)
FilterValid(exts) ==
  IF exts = <<>> THEN <<>>
  ELSE IF ValidMigrationType(Head(exts))
       THEN <<Head(exts)>> \o FilterValid(Tail(exts))
       ELSE FilterValid(Tail(exts))

\* parseMigrationSpec, lines 93-124: the unit of an entry, null when the
\* entry is skipped.
ParseMigrationSpec(e) ==
  IF ~e.dash THEN Null
  ELSE IF SemverValid(e.lead, e.parts) = Null THEN Null
  ELSE IF e.dir
       THEN [version |-> SemverValid(e.lead, e.parts), multiple |-> TRUE,
             path |-> e.name, files |-> FilterValid(e.children)]
  ELSE IF ~ValidMigrationType(e.ext) THEN Null
  ELSE [version |-> SemverValid(e.lead, e.parts), multiple |-> FALSE,
        path |-> e.name, files |-> <<e.ext>>]

\* Mutant: list returns the parsed entries without sorting them.
List_Unsorted(dir) ==
  LET units == { ParseMigrationSpec(e) :
                   e \in { x \in dir : ParseMigrationSpec(x) # Null } }
      n == Cardinality(units)
  IN  { s \in [1..n -> units] : \A i, j \in 1..n : i # j => s[i] # s[j] }

\* list, lines 132-143: the parsed entries, compacted, sorted by
\* semver.compare.  The sort leaves the order of two units of the same
\* version open, so list has every such order as a possible outcome.
List(dir) ==
  LET units == { ParseMigrationSpec(e) :
                   e \in { x \in dir : ParseMigrationSpec(x) # Null } }
      n == Cardinality(units)
  IN  { s \in [1..n -> units] :
          /\ \A i, j \in 1..n : i # j => s[i] # s[j]
          /\ \A i, j \in 1..n :
               i < j => SemverCompare(s[i].version, s[j].version) <= 0 }

\* The versions of the units of a catalog (_.map(migrations, 'version')).
CatalogVersions(migrations) ==
  { migrations[i].version : i \in 1..Len(migrations) }

---------------------------------------------------------------------------
(* The database behind a session *)

\* The bookkeeping as one transaction sees it: the semigrate schema, the
\* semigrate.migrations table, and the table's rows in insertion order,
\* each the version of one record.
Store(schema, table, rows) == [schema |-> schema, table |-> table, rows |-> rows]

\* SELECT version FROM semigrate.migrations with _.map(result, 'version'),
\* as far as semver.maxSatisfying reads it: the versions recorded.
Recorded(s) == { s.rows[i] : i \in 1..Len(s.rows) }

\* Mutant: the table has no primary key.
PrimaryKeyAllows_NoKey(rows, v) == TRUE

\* initialize, line 186: version is the primary key, so an INSERT of a
\* version that is already recorded fails.
PrimaryKeyAllows(rows, v) == \A i \in 1..Len(rows) : rows[i] # v

\* What the session reads and writes: its transaction's working copy, or
\* the committed state when no transaction is open (autocommit).
View(d) == IF d.tx = "none" THEN d.committed ELSE d.work

Write(d, s) ==
  IF d.tx = "none" THEN [d EXCEPT !.committed = s, !.work = s]
  ELSE [d EXCEPT !.work = s]

\* A statement that fails inside a transaction aborts the transaction.
Failed(d) == IF d.tx = "open" THEN [d EXCEPT !.tx = "aborted"] ELSE d

\* The outcome of one statement on the session: whether it succeeded and
\* the database after it.  fault is a failure of the environment (a lost
\* connection, a script with an error); v is the version of an INSERT.
Exec(d, kind, v, fault) ==
  LET cur == View(d)
      ok(e) == [ok |-> TRUE, db |-> e]
      no == [ok |-> FALSE, db |-> Failed(d)]
  IN  IF fault THEN no
      ELSE IF kind = "ROLLBACK"
        THEN ok([d EXCEPT !.tx = "none", !.work = d.committed])
      ELSE IF kind = "COMMIT"
        THEN IF d.tx = "open"
             THEN ok([d EXCEPT !.tx = "none", !.committed = d.work])
             ELSE ok([d EXCEPT !.tx = "none", !.work = d.committed])
      ELSE IF d.tx = "aborted" THEN no
      ELSE IF kind = "BEGIN"
        THEN ok([d EXCEPT !.tx = "open"])
      ELSE IF kind = "CREATE SCHEMA"
        THEN ok(Write(d, [cur EXCEPT !.schema = TRUE]))
      ELSE IF kind = "CREATE TABLE"
        THEN IF cur.schema THEN ok(Write(d, [cur EXCEPT !.table = TRUE])) ELSE no
      ELSE IF kind = "SELECT"
        THEN IF cur.table THEN ok(d) ELSE no
      ELSE IF kind = "DELETE"
        THEN IF cur.table THEN ok(Write(d, [cur EXCEPT !.rows = <<>>])) ELSE no
      ELSE IF kind = "INSERT"
        THEN IF cur.table /\ PrimaryKeyAllows(cur.rows, v)
             THEN ok(Write(d, [cur EXCEPT !.rows = Append(cur.rows, v)]))
             ELSE no
      ELSE ok(d)

---------------------------------------------------------------------------
(* The state of the program *)

VARIABLES
  directory,        \* fs.readdirSync(config.directory): the entries on disk
  catalog,          \* list(config.directory): the units on disk, sorted
  db,               \* the database: committed state, transaction, working copy
  runs,             \* runs of semigrate() started so far
  prev,             \* the previous run, if it was a plain one: how it ended, the units it started
  pc,               \* where the promise chain of the current run stands
  cfg,              \* config: reset, migrate, dry-run, load
  target,           \* semigrate's `version`: the catalog's greatest version
  outstanding,      \* statements issued to the session and not yet completed
  issued,           \* every statement issued by the run, in order
  version,          \* migrate's `version`, the value versionPromise resolved to
  migrations,       \* migrate's `migrations` after the filter: the queue
  migration,        \* resume's `migration`: << >> or <<the unit being run>>
  stepIdx,          \* the file of a group unit that qMapSerial has reached
  loadIdx,          \* the load script that qMapSerial has reached
  started,          \* the versions of the units resume has started
  failedUnit,       \* the position in `started` of the unit that failed, 0 if none
  detected,         \* what check's detect returned
  verdict,          \* the branch check took
  error,            \* the reason the chain was rejected with, "none" if none
  result,           \* the promise semigrate returned
  callbacks,        \* how often the completion callback was invoked
  callbackArg,      \* the first argument it was invoked with
  obtained,         \* pg.connect handed a client out of the pool
  released,         \* how often the client's done() was called
  faults,           \* failures of the environment met by the run
  recovered,        \* the detection failure was absorbed
  committedAtStart, \* the committed bookkeeping when the run started
  log,              \* the session's statements as issued and as completed
  promise,          \* runStep's `promise`, a variable of the whole process
  pair              \* two runs under way in one process

vars == <<directory, catalog, db, runs, prev, pc, cfg, target, outstanding, issued,
          version, migrations, migration, stepIdx, loadIdx, started, failedUnit,
          detected, verdict, error, result, callbacks, callbackArg, obtained, released,
          faults, recovered, committedAtStart, log, promise, pair>>

\* The versions a database may hold before the first run.
PriorVersions == { <<0, 9, 0>>, <<1, 0, 0>>, <<1, 5, 0>>, <<2, 0, 0>> }

\* The bookkeeping before the first run: no schema at all, or the table
\* with no record or one record.
PriorStores ==
  { Store(FALSE, FALSE, <<>>), Store(TRUE, TRUE, <<>>) }
    \cup { Store(TRUE, TRUE, <<v>>) : v \in PriorVersions }

\* The directories the runs are given: the entries that list skips are all
\* there, with any of the entries that are migration units.
RunDirectories ==
  LET skipped == { e \in Entries : ParseMigrationSpec(e) = Null }
  IN  { skipped \cup units : units \in SUBSET (Entries \ skipped) }

Config(reset, migrate, dryRun, load) ==
  [reset |-> reset, migrate |-> migrate, dryRun |-> dryRun, load |-> load]

Init ==
  /\ directory \in RunDirectories
  /\ catalog \in List(directory)
  /\ \E s \in PriorStores : db = [committed |-> s, work |-> s, tx |-> "none"]
  /\ runs = 0
  /\ prev = [plain |-> FALSE, ok |-> FALSE, clean |-> FALSE, units |-> 0]
  /\ pc = "idle"
  /\ cfg = Config(FALSE, FALSE, FALSE, 0)
  /\ target = Null
  /\ outstanding = <<>>
  /\ issued = <<>>
  /\ version = Null
  /\ migrations = <<>>
  /\ migration = <<>>
  /\ stepIdx = 0
  /\ loadIdx = 0
  /\ started = <<>>
  /\ failedUnit = 0
  /\ detected = Null
  /\ verdict = "none"
  /\ error = "none"
  /\ result = "pending"
  /\ callbacks = 0
  /\ callbackArg = "unset"
  /\ obtained = FALSE
  /\ released = 0
  /\ faults = 0
  /\ recovered = FALSE
  /\ committedAtStart = db.committed
  /\ log = <<>>
  /\ promise = Null
  /\ pair = <<>>

---------------------------------------------------------------------------
(* Helpers of the actions *)

\* An entry of the log: a statement issued ("issue"), completed ("ok") or
\* failed ("fail"), or a procedure that threw before it returned ("throw");
\* with the unit (its place among the units started) and the step (the
\* place of the file in the unit, or of the script in config.load) the
\* statement belongs to, 0 where there is none.
Ev(op, kind, unit, step) == [op |-> op, kind |-> kind, unit |-> unit, step |-> step]

\* The statements issued and the statements completed so far, in order.
Issues(l) == SelectSeq(l, LAMBDA e : e.op = "issue")

Completions(l) == SelectSeq(l, LAMBDA e : e.op \in {"ok", "fail"})

\* The session runs its statements first in, first out: the one that
\* completes next is the oldest issued and not yet completed.
Completion(ok) ==
  [Issues(log)[Len(Completions(log)) + 1] EXCEPT
     !.op = IF ok THEN "ok" ELSE "fail"]

\* The value runStep assigns to `promise`: the promise of the statement the
\* run is issuing.
Handle(run, stmt) == [run |-> run, stmt |-> stmt]

\* conn.query(statement): the statement joins the session's queue.
Issue(stmts) ==
  /\ outstanding' = outstanding \o stmts
  /\ issued' = issued \o stmts
  /\ log' = log \o [i \in 1..Len(stmts) |-> Ev("issue", stmts[i], 0, 0)]

\* conn.query(statement) for a step of a unit or a script of config.load.
IssueFor(stmts, unit, step) ==
  /\ outstanding' = outstanding \o stmts
  /\ issued' = issued \o stmts
  /\ log' = log \o [i \in 1..Len(stmts) |-> Ev("issue", stmts[i], unit, step + i - 1)]

\* The statement at the head of the queue leaves it, completed or failed.
Complete(ok) ==
  /\ outstanding' = Tail(outstanding)
  /\ log' = Append(log, Completion(ok))

\* The statement at the head of the queue completes.
Completes(kind) == outstanding # <<>> /\ Head(outstanding) = kind

\* Mutant: finish is registered for the rejection too, a failed run goes on
\* to COMMIT.
Reject_ToFinish(reason) ==
  /\ pc' = "finish"
  /\ error' = reason

\* A rejection skips every later .then of the chain and reaches .fin.
Reject(reason) ==
  /\ pc' = "fin"
  /\ error' = reason

Fault(fault) == faults' = faults + (IF fault THEN 1 ELSE 0)

\* A run that migrates, commits and does not reset.
Plain(c) == c.migrate /\ ~c.dryRun /\ ~c.reset

\* Mutant: the scripts of config.load are only loaded by a run that migrates.
AfterReset_LoadOnlyWithMigrate == IF cfg.migrate THEN "migrate" ELSE "finish"

\* semigrate, lines 372-374: a null handler hands the connection on.
AfterReset == IF cfg.migrate THEN "migrate" ELSE "load"

AfterInitialize == IF cfg.reset THEN "reset" ELSE AfterReset

\* The statement of a step, by its extension: a script sent as one query,
\* or a procedure called with the connection.
StepStatement(ext) == IF ext = "sql" THEN "SCRIPT" ELSE "PROCEDURE"

\* run, lines 243-246: the statements of the files of a group unit.
StepStatements(m) == [i \in 1..Len(m.files) |-> StepStatement(m.files[i])]

\* load, lines 310-315: one conn.query(content) per script of config.load.
LoadStatements(c) == [k \in 1..c.load |-> "SCRIPT"]

\* Mutant: func is called for every remaining element at once, as a map
\* that does not chain the calls would.
QMapSerial_AtOnce(array, idx) == SubSeq(array, idx, Len(array))

\* qMapSerial, lines 27-31: func(x) is called in the handler of the
\* previous element's promise, so one turn calls it for one element.
QMapSerial(array, idx) == <<array[idx]>>

---------------------------------------------------------------------------
(* Variables that most actions leave alone *)

runVars == <<directory, catalog, runs, prev, cfg, target, committedAtStart,
             pair>>
connVars == <<obtained, released>>
callbackVars == <<result, callbacks, callbackArg>>
migrateVars == <<version, migrations, migration, stepIdx, started, recovered,
                 failedUnit>>
checkVars == <<detected, verdict>>

---------------------------------------------------------------------------
(* semigrate and connect *)

\* semigrate(config, callback), lines 361-370: list the directory, take the
\* greatest version, and start the chain with connect.  The run gets a
\* session of its own, in a process of its own.
Start(reset, migrate, dryRun, load) ==
  /\ pc = "idle"
  /\ runs < MaxRuns
  /\ runs' = runs + 1
  /\ cfg' = Config(reset, migrate, dryRun, load)
  /\ target' = MaxSatisfying(CatalogVersions(catalog))
  /\ db' = [db EXCEPT !.tx = "none", !.work = db.committed]
  /\ committedAtStart' = db.committed
  /\ pc' = "connect"
  /\ outstanding' = <<>>
  /\ issued' = <<>>
  /\ version' = Null
  /\ migrations' = catalog
  /\ migration' = <<>>
  /\ stepIdx' = 0
  /\ loadIdx' = 1
  /\ started' = <<>>
  /\ failedUnit' = 0
  /\ detected' = Null
  /\ verdict' = "none"
  /\ error' = "none"
  /\ result' = "pending"
  /\ callbacks' = 0
  /\ callbackArg' = "unset"
  /\ obtained' = FALSE
  /\ released' = 0
  /\ faults' = 0
  /\ recovered' = FALSE
  /\ log' = <<>>
  /\ promise' = Null
  /\ UNCHANGED <<directory, catalog, prev, pair>>

\* The process of a run ends: quit or fatal once the promise of semigrate is
\* settled (cli.js, lines 6-12 and 55), or the uncaught exception.  The
\* session goes with the process, and with it the transaction it had open
\* and the statements still in its queue.
Exit ==
  /\ pc \in {"done", "crashed"}
  /\ pc' = "idle"
  /\ prev' = IF ~Plain(cfg)
             THEN [plain |-> FALSE, ok |-> FALSE, clean |-> FALSE, units |-> 0]
             ELSE [plain |-> TRUE,
                   ok |-> (pc = "done" /\ result = "fulfilled"),
                   clean |-> (faults = 0),
                   units |-> Len(started)]
  /\ db' = [db EXCEPT !.tx = "none", !.work = db.committed]
  /\ committedAtStart' = db.committed
  /\ cfg' = Config(FALSE, FALSE, FALSE, 0)
  /\ target' = Null
  /\ outstanding' = <<>>
  /\ issued' = <<>>
  /\ version' = Null
  /\ migrations' = <<>>
  /\ migration' = <<>>
  /\ stepIdx' = 0
  /\ loadIdx' = 0
  /\ started' = <<>>
  /\ failedUnit' = 0
  /\ detected' = Null
  /\ verdict' = "none"
  /\ error' = "none"
  /\ result' = "pending"
  /\ callbacks' = 0
  /\ callbackArg' = "unset"
  /\ obtained' = FALSE
  /\ released' = 0
  /\ faults' = 0
  /\ recovered' = FALSE
  /\ log' = <<>>
  /\ promise' = Null
  /\ UNCHANGED <<directory, catalog, runs, pair>>

\* connect, lines 161-167: pg.connect fails, or hands out a client and the
\* BEGIN is sent.  Neither branch calls done.
Connect(err) ==
  /\ pc = "connect"
  /\ Fault(err)
  /\ IF err
     THEN /\ Reject("ConnectionError")
          /\ UNCHANGED <<outstanding, issued, log, obtained>>
     ELSE /\ obtained' = TRUE
          /\ Issue(<<"BEGIN">>)
          /\ pc' = "begin"
          /\ UNCHANGED error
  /\ UNCHANGED <<runVars, db, released, callbackVars, migrateVars, checkVars,
                 loadIdx, promise>>

\* connect, lines 168-173: the callback of BEGIN.
ConnectBegin(fault) ==
  /\ pc = "begin"
  /\ Completes("BEGIN")
  /\ LET r == Exec(db, "BEGIN", Null, fault)
     IN  /\ db' = r.db
         /\ Complete(r.ok)
         /\ IF r.ok THEN pc' = "initialize" /\ UNCHANGED error
                    ELSE Reject("StatementError")
  /\ Fault(fault)
  /\ UNCHANGED <<runVars, issued, connVars, callbackVars, migrateVars,
                 checkVars, loadIdx, promise>>

---------------------------------------------------------------------------
(* initialize and reset *)

\* initialize, lines 180-188: both statements are sent at once, under Q.all.
Initialize ==
  /\ pc = "initialize"
  /\ Issue(<<"CREATE SCHEMA", "CREATE TABLE">>)
  /\ pc' = "initializing"
  /\ UNCHANGED <<runVars, db, error, faults, connVars, callbackVars,
                 migrateVars, checkVars, loadIdx, promise>>

\* Q.all, lines 183-191: resolved when the last statement succeeded,
\* rejected as soon as one fails (the other stays in the queue).
InitializeDone(fault) ==
  /\ pc = "initializing"
  /\ outstanding # <<>>
  /\ LET r == Exec(db, Head(outstanding), Null, fault)
     IN  /\ db' = r.db
         /\ Complete(r.ok)
         /\ IF ~r.ok THEN Reject("StatementError")
            ELSE /\ pc' = IF Tail(outstanding) = <<>> THEN AfterInitialize
                          ELSE "initializing"
                 /\ UNCHANGED error
  /\ Fault(fault)
  /\ UNCHANGED <<runVars, issued, connVars, callbackVars, migrateVars,
                 checkVars, loadIdx, promise>>

\* reset, lines 343-346.
Reset ==
  /\ pc = "reset"
  /\ Issue(<<"DELETE">>)
  /\ pc' = "resetting"
  /\ UNCHANGED <<runVars, db, error, faults, connVars, callbackVars,
                 migrateVars, checkVars, loadIdx, promise>>

\* reset, lines 347-350.
ResetDone(fault) ==
  /\ pc = "resetting"
  /\ Completes("DELETE")
  /\ LET r == Exec(db, "DELETE", Null, fault)
     IN  /\ db' = r.db
         /\ Complete(r.ok)
         /\ IF r.ok THEN pc' = AfterReset /\ UNCHANGED error
                    ELSE Reject("StatementError")
  /\ Fault(fault)
  /\ UNCHANGED <<runVars, issued, connVars, callbackVars, migrateVars,
                 checkVars, loadIdx, promise>>

---------------------------------------------------------------------------
(* migrate *)

\* Mutant: a unit of the detected version itself is pending again.
Pending_Gte(migs, v) ==
  SelectSeq(migs, LAMBDA m : v = Null \/ SemverCompare(m.version, v) >= 0)

\* The elements of a sequence, last first.
Reversed(seq) == [i \in 1..Len(seq) |-> seq[Len(seq) + 1 - i]]

\* Mutant: the pending units come out newest first.
Pending_NewestFirst(migs, v) ==
  Reversed(SelectSeq(migs, LAMBDA m : v = Null \/ SemverGt(m.version, v)))

\* Mutant: the arguments of the comparison are swapped, the units older
\* than the detected version are pending.
Pending_Lt(migs, v) ==
  SelectSeq(migs, LAMBDA m : v = Null \/ SemverGt(v, m.version))

\* migrate, lines 272-274: the units newer than the detected version, all
\* of them when the version is null, in catalog order.
Pending(migs, v) ==
  SelectSeq(migs, LAMBDA m : v = Null \/ SemverGt(m.version, v))

\* semver.gt(migration.version, version) throws a TypeError when version is
\* neither null nor a version text; _.filter calls it for the first unit.
FilterThrows(migs, v) == migs # <<>> /\ v # Null /\ ~IsVersion(v)

\* migrate, line 262, and detect, line 199: the current-version query.
Migrate ==
  /\ pc = "migrate"
  /\ Issue(<<"SELECT">>)
  /\ pc' = "detecting"
  /\ UNCHANGED <<runVars, db, error, faults, connVars, callbackVars,
                 migrateVars, checkVars, loadIdx, promise>>

\* detect, lines 200-208, and migrate, lines 263-267: the version resolves
\* versionPromise; on a failure ROLLBACK and BEGIN are both sent, under
\* Q.all.
DetectDone(fault) ==
  /\ pc = "detecting"
  /\ Completes("SELECT")
  /\ LET r == Exec(db, "SELECT", Null, fault)
     IN  /\ db' = r.db
         /\ IF r.ok
            THEN /\ version' = MaxSatisfying(Recorded(View(r.db)))
                 /\ pc' = "filter"
                 /\ Complete(TRUE)
                 /\ UNCHANGED issued
            ELSE /\ outstanding' = Tail(outstanding) \o <<"ROLLBACK", "BEGIN">>
                 /\ issued' = issued \o <<"ROLLBACK", "BEGIN">>
                 /\ log' = log \o <<Completion(FALSE),
                                    Ev("issue", "ROLLBACK", 0, 0),
                                    Ev("issue", "BEGIN", 0, 0)>>
                 /\ pc' = "recovering"
                 /\ UNCHANGED version
  /\ Fault(fault)
  /\ UNCHANGED <<runVars, error, connVars, callbackVars, migrations, migration,
                 stepIdx, started, recovered, failedUnit, checkVars, loadIdx,
                 promise>>

\* migrate, lines 265-269: Q.all([ROLLBACK, BEGIN]) resolves versionPromise
\* to the array of the two results, and that array is the `version` the
\* next handler receives.
RecoverDone(fault) ==
  /\ pc = "recovering"
  /\ outstanding # <<>>
  /\ LET r == Exec(db, Head(outstanding), Null, fault)
     IN  /\ db' = r.db
         /\ Complete(r.ok)
         /\ IF ~r.ok
            THEN Reject("StatementError") /\ UNCHANGED <<version, recovered>>
            ELSE IF Tail(outstanding) # <<>>
            THEN UNCHANGED <<pc, error, version, recovered>>
            ELSE /\ version' = RecoveryRows
                 /\ recovered' = TRUE
                 /\ pc' = "filter"
                 /\ UNCHANGED error
  /\ Fault(fault)
  /\ UNCHANGED <<runVars, issued, connVars, callbackVars, migrations, migration,
                 stepIdx, started, failedUnit, checkVars, loadIdx, promise>>

\* migrate, lines 269-298: filter the catalog and schedule resume.  An
\* exception of the filter rejects the promise.
Filter ==
  /\ pc = "filter"
  /\ IF FilterThrows(migrations, version)
     THEN Reject("TypeError") /\ UNCHANGED migrations
     ELSE /\ migrations' = Pending(migrations, version)
          /\ pc' = "resume"
          /\ UNCHANGED error
  /\ UNCHANGED <<runVars, db, outstanding, issued, log, promise, faults, connVars,
                 callbackVars, version, migration, stepIdx, started, recovered,
                 failedUnit, checkVars, loadIdx>>

\* resume, lines 276-290, with run, lines 240-249.  resume runs from
\* process.nextTick, outside every promise handler: run calls runStep for a
\* single-file unit directly, so a procedure that throws there (line 225)
\* is an uncaught exception and nothing settles the promise.  A group's
\* steps run inside qMapSerial's handlers.
Resume(throws) ==
  /\ pc = "resume"
  /\ IF migrations = <<>>
     THEN /\ pc' = "load"
          /\ UNCHANGED <<migrations, migration, stepIdx, started, outstanding,
                         issued, log, promise, faults, failedUnit>>
     ELSE LET m == Head(migrations)
          IN  /\ migrations' = Tail(migrations)
              /\ migration' = <<m>>
              /\ started' = Append(started, m.version)
              /\ IF m.multiple
                 THEN /\ stepIdx' = 1
                      /\ pc' = "groupStep"
                      /\ UNCHANGED <<outstanding, issued, log, promise, faults,
                                     failedUnit>>
                 ELSE IF m.files[1] = "js" /\ throws
                 THEN /\ pc' = "crashed"
                      /\ faults' = faults + 1
                      /\ failedUnit' = Len(started) + 1
                      /\ log' = Append(log, Ev("throw", "PROCEDURE",
                                                Len(started) + 1, 1))
                      /\ UNCHANGED <<stepIdx, outstanding, issued, promise>>
                 ELSE /\ IssueFor(<<StepStatement(m.files[1])>>,
                                   Len(started) + 1, 1)
                      /\ promise' = Handle(runs, Len(issued) + 1)
                      /\ pc' = "step"
                      /\ UNCHANGED <<stepIdx, faults, failedUnit>>
  /\ UNCHANGED <<runVars, db, error, connVars, callbackVars, version,
                 recovered, checkVars, loadIdx>>

\* qMapSerial, lines 27-31, over migration.files with runStep, lines
\* 213-236; after the last file run's handler sends the INSERT, line 252.
GroupStep(throws) ==
  /\ pc = "groupStep"
  /\ LET m == migration[1]
     IN  IF stepIdx > Len(m.files)
         THEN /\ IssueFor(<<"INSERT">>, Len(started), 0)
              /\ pc' = "inserting"
              /\ UNCHANGED <<error, faults, failedUnit, promise>>
         ELSE IF m.files[stepIdx] = "js" /\ throws
         THEN /\ Reject("StepError")
              /\ faults' = faults + 1
              /\ failedUnit' = Len(started)
              /\ log' = Append(log, Ev("throw", "PROCEDURE", Len(started),
                                        stepIdx))
              /\ UNCHANGED <<outstanding, issued, promise>>
         ELSE /\ IssueFor(QMapSerial(StepStatements(m), stepIdx), Len(started),
                           stepIdx)
              /\ promise' = Handle(runs, Len(issued) + 1)
              /\ pc' = "step"
              /\ UNCHANGED <<error, faults, failedUnit>>
  /\ UNCHANGED <<runVars, db, connVars, callbackVars, version, migrations,
                 migration, stepIdx, started, recovered, checkVars, loadIdx>>

\* runStep, lines 232-235, and run, lines 251-253: a step completes; the
\* next file of a group follows, or the bookkeeping INSERT.
StepDone(fault) ==
  /\ pc = "step"
  /\ outstanding # <<>>
  /\ Head(outstanding) \in {"SCRIPT", "PROCEDURE"}
  /\ LET r == Exec(db, Head(outstanding), Null, fault)
         m == migration[1]
     IN  /\ db' = r.db
         /\ IF ~r.ok
            THEN /\ Reject("StatementError")
                 /\ failedUnit' = Len(started)
                 /\ Complete(FALSE)
                 /\ UNCHANGED <<issued, stepIdx>>
            ELSE IF m.multiple
            THEN /\ stepIdx' = stepIdx + 1
                 /\ pc' = "groupStep"
                 /\ Complete(TRUE)
                 /\ UNCHANGED <<issued, error, failedUnit>>
            ELSE /\ outstanding' = Tail(outstanding) \o <<"INSERT">>
                 /\ issued' = issued \o <<"INSERT">>
                 /\ log' = log \o <<Completion(TRUE),
                                    Ev("issue", "INSERT", Len(started), 0)>>
                 /\ pc' = "inserting"
                 /\ UNCHANGED <<error, stepIdx, failedUnit>>
  /\ Fault(fault)
  /\ UNCHANGED <<runVars, connVars, callbackVars, version, migrations,
                 migration, started, recovered, checkVars, loadIdx,
                 promise>>

\* run, line 252, and resume, lines 285-290: the INSERT completes and
\* resume is scheduled again, or the promise is rejected.
InsertDone(fault) ==
  /\ pc = "inserting"
  /\ Completes("INSERT")
  /\ LET r == Exec(db, "INSERT", migration[1].version, fault)
     IN  /\ db' = r.db
         /\ Complete(r.ok)
         /\ IF r.ok THEN pc' = "resume" /\ UNCHANGED <<error, failedUnit>>
                    ELSE Reject("StatementError") /\ failedUnit' = Len(started)
  /\ Fault(fault)
  /\ UNCHANGED <<runVars, issued, connVars, callbackVars, version, migrations,
                 migration, stepIdx, started, recovered, checkVars, loadIdx,
                 promise>>

---------------------------------------------------------------------------
(* load, finish, check and the callback *)

\* load, lines 305-316: qMapSerial over the scripts; after the last one the
\* connection is handed on.
Load ==
  /\ pc = "load"
  /\ IF loadIdx > cfg.load
     THEN pc' = "finish" /\ UNCHANGED <<outstanding, issued, log>>
     ELSE /\ IssueFor(QMapSerial(LoadStatements(cfg), loadIdx), 0, loadIdx)
          /\ pc' = "loading"
  /\ UNCHANGED <<runVars, db, error, faults, connVars, callbackVars,
                 migrateVars, checkVars, loadIdx, promise>>

\* load, lines 313-315.
LoadDone(fault) ==
  /\ pc = "loading"
  /\ Completes("SCRIPT")
  /\ LET r == Exec(db, "SCRIPT", Null, fault)
     IN  /\ db' = r.db
         /\ Complete(r.ok)
         /\ IF r.ok
            THEN loadIdx' = loadIdx + 1 /\ pc' = "load" /\ UNCHANGED error
            ELSE Reject("StatementError") /\ UNCHANGED loadIdx
  /\ Fault(fault)
  /\ UNCHANGED <<runVars, issued, connVars, callbackVars, migrateVars,
                 checkVars, promise>>

\* Mutant: the dry-run option is ignored and the run commits.
FinishStatements_Always(c) == <<"COMMIT">>

\* semigrate, lines 375-378: finish() sends COMMIT; the dry-run handler
\* reports 'Reverting...' and sends nothing.
FinishStatements(c) == IF ~c.dryRun THEN <<"COMMIT">> ELSE <<>>

\* semigrate, lines 375-378, and finish, lines 354-358.
Finish ==
  /\ pc = "finish"
  /\ Issue(FinishStatements(cfg))
  /\ pc' = IF FinishStatements(cfg) = <<>> THEN "check" ELSE "finishing"
  /\ UNCHANGED <<runVars, db, error, faults, connVars, callbackVars,
                 migrateVars, checkVars, loadIdx, promise>>

\* finish, line 356: the COMMIT completes.
FinishDone(fault) ==
  /\ pc = "finishing"
  /\ Completes("COMMIT")
  /\ LET r == Exec(db, "COMMIT", Null, fault)
     IN  /\ db' = r.db
         /\ Complete(r.ok)
         /\ IF r.ok THEN pc' = "check" /\ UNCHANGED error
                    ELSE Reject("StatementError")
  /\ Fault(fault)
  /\ UNCHANGED <<runVars, issued, connVars, callbackVars, migrateVars,
                 checkVars, loadIdx, promise>>

\* check, line 323, and detect, line 199.
Check ==
  /\ pc = "check"
  /\ Issue(<<"SELECT">>)
  /\ pc' = "checking"
  /\ UNCHANGED <<runVars, db, error, faults, connVars, callbackVars,
                 migrateVars, checkVars, loadIdx, promise>>

\* check, lines 324-338: compare the detected version with the catalog's
\* greatest version; the errors reject the chain.
CheckDone(fault) ==
  /\ pc = "checking"
  /\ Completes("SELECT")
  /\ LET r == Exec(db, "SELECT", Null, fault)
         v == MaxSatisfying(Recorded(View(r.db)))
         outcome == CheckOutcome(target, v)
     IN  /\ db' = r.db
         /\ Complete(r.ok)
         /\ pc' = "fin"
         /\ IF ~r.ok
            THEN error' = "StatementError" /\ UNCHANGED <<detected, verdict>>
            ELSE /\ detected' = v
                 /\ verdict' = outcome
                 /\ error' = IF CheckSucceeds(outcome) THEN "none" ELSE outcome
  /\ Fault(fault)
  /\ UNCHANGED <<runVars, issued, connVars, callbackVars, migrateVars, loadIdx,
                 promise>>

\* semigrate, line 380: Q's fin takes one callback and calls it without
\* arguments however the chain ended, so callback.bind(null, null) runs as
\* callback(null); the second argument of fin is never used.  The promise
\* fin returns keeps the chain's outcome.
Fin ==
  /\ pc = "fin"
  /\ callbacks' = callbacks + 1
  /\ callbackArg' = "null"
  /\ result' = IF error = "none" THEN "fulfilled" ELSE "rejected"
  /\ pc' = "done"
  /\ UNCHANGED <<runVars, db, outstanding, issued, log, promise, error, faults, connVars,
                 migrateVars, checkVars, loadIdx>>

\* A statement that Q.all left in the queue when it rejected still runs on
\* the session.
Drain(fault) ==
  /\ pc \in {"fin", "done"}
  /\ outstanding # <<>>
  /\ LET r == Exec(db, Head(outstanding), Null, fault)
     IN  db' = r.db /\ Complete(r.ok)
  /\ UNCHANGED <<runVars, pc, issued, error, faults, connVars, callbackVars,
                 migrateVars, checkVars, loadIdx, promise>>

---------------------------------------------------------------------------
(* The specification of the runs *)

Next ==
  \/ \E reset, migrate, dryRun \in BOOLEAN, load \in 0..MaxLoad :
       Start(reset, migrate, dryRun, load)
  \/ Exit
  \/ \E err \in BOOLEAN : Connect(err)
  \/ \E fault \in BOOLEAN : ConnectBegin(fault)
  \/ Initialize
  \/ \E fault \in BOOLEAN : InitializeDone(fault)
  \/ Reset
  \/ \E fault \in BOOLEAN : ResetDone(fault)
  \/ Migrate
  \/ \E fault \in BOOLEAN : DetectDone(fault)
  \/ \E fault \in BOOLEAN : RecoverDone(fault)
  \/ Filter
  \/ \E throws \in BOOLEAN : Resume(throws)
  \/ \E throws \in BOOLEAN : GroupStep(throws)
  \/ \E fault \in BOOLEAN : StepDone(fault)
  \/ \E fault \in BOOLEAN : InsertDone(fault)
  \/ Load
  \/ \E fault \in BOOLEAN : LoadDone(fault)
  \/ Finish
  \/ \E fault \in BOOLEAN : FinishDone(fault)
  \/ Check
  \/ \E fault \in BOOLEAN : CheckDone(fault)
  \/ Fin
  \/ \E fault \in BOOLEAN : Drain(fault)

Spec == Init /\ [][Next]_vars

---------------------------------------------------------------------------
(* check on its own: every pair of a catalog maximum and a detected version *)

CheckVersions == { <<a, b, c>> : a, b, c \in 0..MaxVer }

\* No run under way: the state the operations checked on their own leave
\* untouched.
AtRest ==
  /\ db = [committed |-> Store(TRUE, TRUE, <<>>),
           work |-> Store(TRUE, TRUE, <<>>), tx |-> "none"]
  /\ runs = 0
  /\ prev = [plain |-> FALSE, ok |-> FALSE, clean |-> FALSE, units |-> 0]
  /\ cfg = Config(FALSE, FALSE, FALSE, 0)
  /\ outstanding = <<>>
  /\ issued = <<>>
  /\ version = Null
  /\ migrations = <<>>
  /\ migration = <<>>
  /\ stepIdx = 0
  /\ loadIdx = 0
  /\ started = <<>>
  /\ failedUnit = 0
  /\ verdict = "none"
  /\ error = "none"
  /\ result = "pending"
  /\ callbacks = 0
  /\ callbackArg = "unset"
  /\ obtained = FALSE
  /\ released = 0
  /\ faults = 0
  /\ recovered = FALSE
  /\ committedAtStart = db.committed
  /\ log = <<>>
  /\ promise = Null
  /\ pair = <<>>

InitCheck ==
  /\ directory = {}
  /\ catalog = <<>>
  /\ pc = "check.input"
  /\ target \in CheckVersions \cup {Null}
  /\ detected \in CheckVersions \cup {Null}
  /\ AtRest

\* check, lines 324-338, applied to the detected version.
CheckApply ==
  /\ pc = "check.input"
  /\ verdict' = CheckOutcome(target, detected)
  /\ error' = IF CheckSucceeds(verdict') THEN "none" ELSE verdict'
  /\ pc' = "check.output"
  /\ UNCHANGED <<runVars, db, outstanding, issued, log, promise, faults, connVars,
                 callbackVars, migrateVars, detected, loadIdx>>

NextCheck == CheckApply

SpecCheck == InitCheck /\ [][NextCheck]_vars

---------------------------------------------------------------------------
(* list on its own: every content of the migration directory *)

InitList ==
  /\ directory \in SUBSET Entries
  /\ catalog = <<>>
  /\ pc = "list.input"
  /\ target = Null
  /\ detected = Null
  /\ AtRest

\* list, lines 132-143, applied to the directory.
ListApply ==
  /\ pc = "list.input"
  /\ catalog' \in List(directory)
  /\ pc' = "list.output"
  /\ UNCHANGED <<directory, runs, prev, cfg, target, db, outstanding, issued,
                 faults, connVars, callbackVars, migrateVars, checkVars,
                 loadIdx, error, committedAtStart, log, promise, pair>>

NextList == ListApply

SpecList == InitList /\ [][NextList]_vars

---------------------------------------------------------------------------
(* migrate of two runs in one process, each on a session of its own *)

Runs == 1..2

pairRest == <<directory, catalog, db, runs, prev, cfg, target, outstanding,
              issued, version, migrations, migration, stepIdx, loadIdx,
              started, failedUnit, detected, verdict, error, result, callbacks,
              callbackArg, obtained, released, faults, recovered,
              committedAtStart, log>>

\* A run at the start of migrate's resume, every unit of the catalog
\* pending: its queue of units, the unit and step it is at, the statements
\* it issued, the promise each step's handler was attached to, whether a
\* step of its own failed or threw, and how it ended.
PairRun(migs) ==
  [pc |-> "resume", migrations |-> migs, migration |-> <<>>, stepIdx |-> 0,
   issued |-> <<>>, chained |-> <<>>, failed |-> FALSE, outcome |-> "pending"]

InitPair ==
  /\ directory \in RunDirectories
  /\ catalog \in List(directory)
  /\ pc = "pair"
  /\ target = Null
  /\ detected = Null
  /\ db = [committed |-> Store(TRUE, TRUE, <<>>),
           work |-> Store(TRUE, TRUE, <<>>), tx |-> "none"]
  /\ runs = 0
  /\ prev = [plain |-> FALSE, ok |-> FALSE, clean |-> FALSE, units |-> 0]
  /\ cfg = Config(FALSE, TRUE, FALSE, 0)
  /\ outstanding = <<>>
  /\ issued = <<>>
  /\ version = Null
  /\ migrations = <<>>
  /\ migration = <<>>
  /\ stepIdx = 0
  /\ loadIdx = 0
  /\ started = <<>>
  /\ failedUnit = 0
  /\ verdict = "none"
  /\ error = "none"
  /\ result = "pending"
  /\ callbacks = 0
  /\ callbackArg = "unset"
  /\ obtained = FALSE
  /\ released = 0
  /\ faults = 0
  /\ recovered = FALSE
  /\ committedAtStart = db.committed
  /\ log = <<>>
  /\ promise = Null
  /\ pair = [r \in Runs |-> PairRun(catalog)]

\* runStep, lines 219-235, called by run r for a statement: `promise` is
\* assigned and, in the same turn, read again for .then.
PairRunStep(r, stmt, nextPc) ==
  LET own == Handle(r, Len(pair[r].issued) + 1)
  IN  /\ promise' = own
      /\ pair' = [pair EXCEPT ![r].issued = Append(@, stmt),
                              ![r].chained = Append(@, promise'),
                              ![r].pc = nextPc]

\* An exception nothing catches ends the process, and with it every run
\* that has not ended.
PairUncaught(r) ==
  /\ pc' = "crashed"
  /\ pair' = [q \in Runs |->
                IF pair[q].outcome # "pending" THEN pair[q]
                ELSE [pair[q] EXCEPT !.outcome = "killed", !.pc = "done",
                                     !.failed = (@ \/ q = r)]]

\* The promise of migrate is settled for run r.
PairSettle(r, outcome, failed) ==
  pair' = [pair EXCEPT ![r].outcome = outcome, ![r].pc = "done",
                       ![r].failed = failed]

\* resume, lines 276-290, with run, lines 240-249, for run r.
PairResume(r, throws) ==
  /\ pc = "pair"
  /\ pair[r].pc = "resume"
  /\ IF pair[r].migrations = <<>>
     THEN PairSettle(r, "fulfilled", FALSE) /\ UNCHANGED <<pc, promise>>
     ELSE LET m == Head(pair[r].migrations)
          IN  IF m.multiple
              THEN /\ pair' = [pair EXCEPT ![r].migrations = Tail(@),
                                           ![r].migration = <<m>>,
                                           ![r].stepIdx = 1,
                                           ![r].pc = "groupStep"]
                   /\ UNCHANGED <<pc, promise>>
              ELSE IF m.files[1] = "js" /\ throws
              THEN PairUncaught(r) /\ UNCHANGED promise
              ELSE /\ promise' = Handle(r, Len(pair[r].issued) + 1)
                   /\ pair' = [pair EXCEPT
                                 ![r].migrations = Tail(@),
                                 ![r].migration = <<m>>,
                                 ![r].issued = Append(@, StepStatement(m.files[1])),
                                 ![r].chained = Append(@, promise'),
                                 ![r].pc = "step"]
                   /\ UNCHANGED pc
  /\ UNCHANGED pairRest

\* qMapSerial over the files of run r's group unit with runStep; after the
\* last file run's handler sends the INSERT, line 252.
PairGroupStep(r, throws) ==
  /\ pc = "pair"
  /\ pair[r].pc = "groupStep"
  /\ LET m == pair[r].migration[1]
         idx == pair[r].stepIdx
     IN  IF idx > Len(m.files)
         THEN /\ pair' = [pair EXCEPT ![r].issued = Append(@, "INSERT"),
                                      ![r].pc = "inserting"]
              /\ UNCHANGED promise
         ELSE IF m.files[idx] = "js" /\ throws
         THEN PairSettle(r, "rejected", TRUE) /\ UNCHANGED promise
         ELSE PairRunStep(r, StepStatement(m.files[idx]), "step")
  /\ UNCHANGED <<pc, pairRest>>

\* runStep, lines 232-235, and run, lines 251-253: the step of run r
\* completes on r's session.
PairStepDone(r, fault) ==
  /\ pc = "pair"
  /\ pair[r].pc = "step"
  /\ IF fault THEN PairSettle(r, "rejected", TRUE)
     ELSE IF pair[r].migration[1].multiple
     THEN pair' = [pair EXCEPT ![r].stepIdx = @ + 1, ![r].pc = "groupStep"]
     ELSE pair' = [pair EXCEPT ![r].issued = Append(@, "INSERT"),
                              ![r].pc = "inserting"]
  /\ UNCHANGED <<pc, promise, pairRest>>

\* run, line 252, and resume, lines 285-290: the INSERT of run r completes.
PairInsertDone(r, fault) ==
  /\ pc = "pair"
  /\ pair[r].pc = "inserting"
  /\ IF fault THEN PairSettle(r, "rejected", TRUE)
     ELSE pair' = [pair EXCEPT ![r].pc = "resume"]
  /\ UNCHANGED <<pc, promise, pairRest>>

NextPair ==
  \E r \in Runs :
    \/ \E throws \in BOOLEAN : PairResume(r, throws)
    \/ \E throws \in BOOLEAN : PairGroupStep(r, throws)
    \/ \E fault \in BOOLEAN : PairStepDone(r, fault)
    \/ \E fault \in BOOLEAN : PairInsertDone(r, fault)

SpecPair == InitPair /\ [][NextPair]_vars

---------------------------------------------------------------------------
(* Properties *)

\* A version as one number, for stating orderings apart from semver.
VNum(v) == v[1] * 10000 + v[2] * 100 + v[3]

\* C1: in a dry run the current version durably recorded in the database
\* stays the one recorded before the run, at every point of the run and
\* after it, however the run ends.
C1_DryRunKeepsVersion ==
  cfg.dryRun =>
    MaxSatisfying(Recorded(db.committed)) = MaxSatisfying(Recorded(committedAtStart))

\* A dry run that executed units and succeeded: its transaction holds a
\* newer version than the committed state.
C1_Witness ==
  /\ cfg.dryRun
  /\ pc = "done"
  /\ result = "fulfilled"
  /\ started # <<>>
  /\ MaxSatisfying(Recorded(db.work)) # MaxSatisfying(Recorded(db.committed))

\* C2 (as claimed): when the chain leaves the Finalizing step, the last
\* statement it sent is a ROLLBACK in a dry run and a COMMIT otherwise.
C2_FinalizingRollsBack ==
  pc = "check" =>
    /\ issued # <<>>
    /\ issued[Len(issued)] = (IF cfg.dryRun THEN "ROLLBACK" ELSE "COMMIT")

\* C3 (as claimed): two runs in succession that migrate, commit and do not
\* reset, over a catalog that holds a unit, neither run meeting a failure
\* of the environment: the second starts no unit and the verification
\* succeeds in both.
C3_IdempotentForEveryCatalog ==
  (pc = "done" /\ Plain(cfg) /\ prev.plain /\ faults = 0 /\ prev.clean
     /\ catalog # <<>>) =>
    /\ started = <<>>
    /\ result = "fulfilled"
    /\ prev.ok

\* C3 (amended): after a run that migrated, committed, did not reset and
\* succeeded, another such run starts no unit, and its verification
\* succeeds unless a statement of it fails.
C3_IdempotentAfterSuccess ==
  (Plain(cfg) /\ prev.plain /\ prev.ok) =>
    /\ started = <<>>
    /\ (pc = "done" /\ faults = 0 => result = "fulfilled" /\ verdict # "none")

\* The second of two successful runs, the first of which applied units.
C3_Witness ==
  /\ Plain(cfg) /\ prev.plain /\ prev.ok /\ prev.units > 0
  /\ pc = "done"
  /\ result = "fulfilled"
  /\ started = <<>>

\* C4 (as claimed): once unit K failed, no later unit is started, the run
\* is in the Failed state with the error on its way to the caller, and
\* nothing is recorded durably unless a COMMIT was sent.
C4_PartialFailureIsolation ==
  failedUnit # 0 =>
    /\ Len(started) = failedUnit
    /\ pc \in {"fin", "done"}
    /\ error # "none"
    /\ (pc = "done" => result = "rejected")
    /\ (\A i \in 1..Len(issued) : issued[i] # "COMMIT")
    /\ db.committed = committedAtStart

\* C5 (as claimed): after the detection failure was absorbed, the run goes
\* on with every unit of the catalog pending, and does not end with the
\* error of the version comparison.
C5_DetectionRecovery ==
  recovered =>
    /\ error # "TypeError"
    /\ (pc \notin {"filter", "fin", "done", "crashed"} =>
          Len(started) + Len(migrations) = Len(catalog))

\* C6 (as claimed): when the run is over the callback was invoked once,
\* with the error if the run failed and with null if it succeeded.
C6_CallbackOnceWithError ==
  pc = "done" =>
    /\ callbacks = 1
    /\ callbackArg = (IF result = "rejected" THEN error ELSE "null")

\* C7 (as claimed): when the run is over, a client that was obtained from
\* the pool has been released exactly once.
C7_ReleasedExactlyOnce ==
  (pc = "done" /\ obtained) => released = 1

\* C8: at verification a detected version lower than the catalog maximum
\* fails the run as out-of-date and an equal one succeeds as up-to-date;
\* a database already at the maximum gets no unit applied and the run
\* succeeds.
C8_OutOfDateAndUpToDate ==
  /\ (pc \in {"fin", "done"} /\ verdict # "none"
        /\ target # Null /\ detected # Null) =>
       /\ (VNum(detected) < VNum(target) =>
             error = "OutOfDate" /\ (pc = "done" => result = "rejected"))
       /\ (VNum(detected) = VNum(target) =>
             /\ verdict = "UpToDate"
             /\ error = "none"
             /\ (pc = "done" => result = "fulfilled"))
  /\ (pc = "done" /\ faults = 0 /\ ~cfg.reset /\ target # Null
        /\ MaxSatisfying(Recorded(committedAtStart)) = target) =>
       started = <<>> /\ result = "fulfilled" /\ verdict = "UpToDate"

\* Database 0.9.0 against catalog maximum 1.0.0: out-of-date.
C8_Witness ==
  /\ pc = "done"
  /\ detected = <<0, 9, 0>>
  /\ target = <<1, 0, 0>>
  /\ verdict = "OutOfDate"
  /\ result = "rejected"

\* C9 (as claimed): a detected version greater than the target passes with
\* a warning exactly when it has the target's major version, and is
\* incompatible otherwise.
C9_SameMajorCompatible ==
  (pc = "check.output" /\ target # Null /\ detected # Null
     /\ VNum(detected) > VNum(target)) =>
    verdict = (IF detected[1] = target[1] THEN "Compatible" ELSE "Incompatible")

\* C9 (amended): a detected version greater than the target passes with a
\* warning exactly when it is in the caret range of the target: the same
\* major when that major is at least 1, the same major and minor when the
\* major is 0 and the minor at least 1; otherwise it is incompatible.
C9_CaretCompatible ==
  (pc = "check.output" /\ target # Null /\ detected # Null
     /\ VNum(detected) > VNum(target)) =>
    verdict = (IF /\ detected[1] = target[1]
                  /\ (target[1] > 0 \/ (detected[2] = target[2] /\ target[2] > 0))
               THEN "Compatible" ELSE "Incompatible")

\* Database 0.2.0 against target 0.1.0: the same major, and incompatible.
C9_Witness ==
  /\ pc = "check.output"
  /\ target = <<0, 1, 0>>
  /\ detected = <<0, 2, 0>>
  /\ verdict = "Incompatible"

\* C10 (as claimed): database 2.0.0 against catalog maximum 1.5.0 passes
\* with the compatibility warning.
C10_NewerMajorCompatible ==
  (pc = "check.output" /\ detected = <<2, 0, 0>> /\ target = <<1, 5, 0>>) =>
    verdict = "Compatible" /\ error = "none"

\* C10 (amended): database 2.0.0 against catalog maximum 1.5.0 fails with
\* the incompatible-version error.
C10_NewerMajorIncompatible ==
  (pc = "check.output" /\ detected = <<2, 0, 0>> /\ target = <<1, 5, 0>>) =>
    verdict = "Incompatible" /\ error = "Incompatible"

\* The verdict on database 2.0.0 against catalog maximum 1.5.0.
C10_Witness ==
  /\ pc = "check.output"
  /\ detected = <<2, 0, 0>>
  /\ target = <<1, 5, 0>>
  /\ error = "Incompatible"

\* The name of an entry starts with a valid semantic version followed by '-'.
StartsWithVersion(e) == e.dash /\ SemverValid(e.lead, e.parts) # Null

\* The entries of the directory that list turns into units.
UnitEntries == { e \in directory : ParseMigrationSpec(e) # Null }

\* C11 as stated: for every directory content the output of list is sorted
\* strictly ascending by semantic version, so no two returned units have the
\* same version, and every entry whose name does not start with a valid
\* semantic version followed by '-' is absent from it.
C11_StrictlyAscending ==
  pc = "list.output" =>
    /\ \A i, j \in 1..Len(catalog) :
         i < j => VNum(catalog[i].version) < VNum(catalog[j].version)
    /\ \A e \in directory :
         ~StartsWithVersion(e) =>
           \A i \in 1..Len(catalog) : catalog[i].path # e.name

\* C11 amended: the output of list is sorted ascending by semantic version
\* but not strictly, two entries of one version are both returned; it is
\* strictly ascending when no two unit entries of the directory carry the
\* same version; every unit entry is returned once, and every entry whose
\* name does not start with a valid semantic version followed by '-' is
\* absent.
C11_SortedAndValid ==
  pc = "list.output" =>
    /\ \A i, j \in 1..Len(catalog) :
         i < j => VNum(catalog[i].version) <= VNum(catalog[j].version)
    /\ (\A e1, e2 \in UnitEntries :
          e1 # e2 => SemverValid(e1.lead, e1.parts) # SemverValid(e2.lead, e2.parts))
         => \A i, j \in 1..Len(catalog) :
              i < j => VNum(catalog[i].version) < VNum(catalog[j].version)
    /\ Len(catalog) = Cardinality(UnitEntries)
    /\ \A e \in UnitEntries : \E i \in 1..Len(catalog) : catalog[i].path = e.name
    /\ \A e \in directory :
         ~StartsWithVersion(e) =>
           \A i \in 1..Len(catalog) : catalog[i].path # e.name

\* list has returned three units, two of them of one version, from a
\* directory that also holds entries without a valid version prefix.
C11_Witness ==
  /\ pc = "list.output"
  /\ Len(catalog) = 3
  /\ \E i, j \in 1..Len(catalog) :
       i < j /\ catalog[i].version = catalog[j].version
  /\ \E e \in directory : ~StartsWithVersion(e)

\* The versions of a sequence of units, in order.
VersionsOf(units) == [i \in 1..Len(units) |-> units[i].version]

\* The catalog units newer than the version detected at start, all of them
\* when none was detected, in catalog order.
NewerUnits ==
  SelectSeq(catalog, LAMBDA m : ~IsVersion(version) \/ VNum(m.version) > VNum(version))

\* The records the run found: those of before the run, none of them after a
\* reset that was not rolled back.
FoundRecords ==
  IF cfg.reset /\ ~recovered THEN <<>> ELSE committedAtStart.rows

\* C12: after a successful run that migrates and is no dry run, the units
\* executed are exactly the catalog units newer than the version detected
\* at start (all units when none was detected), in catalog order, and the
\* bookkeeping holds exactly the records found plus one per such unit; on an
\* empty database it ends up holding exactly the catalog versions and the
\* verification against the greatest catalog version succeeds as up to date.
C12_ExecutesExactlyNewerUnits ==
  (pc = "done" /\ result = "fulfilled" /\ cfg.migrate /\ ~cfg.dryRun) =>
    /\ started = VersionsOf(NewerUnits)
    /\ migrations = <<>>
    /\ db.committed.rows = FoundRecords \o VersionsOf(NewerUnits)
    /\ (committedAtStart.rows = <<>> =>
          /\ Recorded(db.committed) = CatalogVersions(catalog)
          /\ detected = target
          /\ verdict = "UpToDate")

\* A successful run on an empty database with a group unit and a
\* single-file unit in the catalog, both now recorded.
C12_Witness ==
  /\ pc = "done" /\ result = "fulfilled" /\ cfg.migrate /\ ~cfg.dryRun
  /\ committedAtStart.rows = <<>>
  /\ Len(catalog) = 2
  /\ catalog[1].multiple /\ ~catalog[2].multiple
  /\ db.committed.rows = <<catalog[1].version, catalog[2].version>>

\* The session was opened: connect's BEGIN completed.
SessionOpened ==
  \E i \in 1..Len(log) : log[i] = Ev("ok", "BEGIN", 0, 0)

\* C13 (as claimed): when the run has ended, a session that was opened has
\* been terminated by exactly one COMMIT or ROLLBACK, whatever step failed,
\* and that terminal statement is the last one issued on the session.
C13_SessionTerminatedOnce ==
  (pc = "done" /\ SessionOpened) =>
    /\ Cardinality({ i \in 1..Len(issued) :
                       issued[i] \in {"COMMIT", "ROLLBACK"} }) = 1
    /\ issued[Len(issued)] \in {"COMMIT", "ROLLBACK"}

\* The places of the log where a COMMIT was issued.
CommitsIssued == { i \in 1..Len(log) : log[i] = Ev("issue", "COMMIT", 0, 0) }

\* The whole pending set of the run.
PendingUnits == IF cfg.migrate THEN NewerUnits ELSE <<>>

\* Before place c of the log a statement of the kind, unit and step
\* completed successfully.
SucceededBefore(c, unit, step) ==
  \E i \in 1..(c - 1) :
    log[i].op = "ok" /\ log[i].unit = unit /\ log[i].step = step

\* C14: whatever step of a run fails, the versions the run has made durable
\* are none or those of the whole pending set, on top of the records the
\* run found; a COMMIT is issued at most once per run, and only after every
\* step and the INSERT of every pending unit and every load script
\* completed successfully, none having failed or thrown.
C14_AllOrNothing ==
  /\ Cardinality(CommitsIssued) <= 1
  /\ \A c \in CommitsIssued :
       /\ cfg.migrate => migrations = <<>> /\ started = VersionsOf(NewerUnits)
       /\ \A i \in 1..(c - 1) :
            /\ log[i].op # "throw"
            /\ log[i].op = "fail" => log[i].unit = 0 /\ log[i].step = 0
       /\ \A u \in 1..Len(PendingUnits) :
            /\ SucceededBefore(c, u, 0)
            /\ \A s \in 1..Len(PendingUnits[u].files) : SucceededBefore(c, u, s)
       /\ \A k \in 1..cfg.load : SucceededBefore(c, 0, k)
  /\ \/ db.committed = committedAtStart
     \/ /\ CommitsIssued # {}
        /\ db.committed.rows = FoundRecords \o VersionsOf(PendingUnits)

\* A run that executed and recorded a unit in its transaction and then
\* failed in a load script: it has ended and nothing of it is durable.
C14_Witness ==
  /\ pc = "done"
  /\ \E i \in 1..Len(log) : log[i].op = "ok" /\ log[i].kind = "INSERT"
  /\ \E i \in 1..Len(log) : log[i] = Ev("fail", "SCRIPT", 0, 2)
  /\ db.committed = committedAtStart

\* The run's COMMIT completed.
Committed == \E i \in 1..Len(log) : log[i] = Ev("ok", "COMMIT", 0, 0)

\* Unit u of the run, a unit of the catalog with files as its steps, was
\* executed in full: each of its steps and its INSERT succeeded.
ExecutedInFull(u, m) ==
  /\ \A s \in 1..Len(m.files) : SucceededBefore(Len(log) + 1, u, s)
  /\ \E i \in 1..Len(log) : log[i] = Ev("ok", "INSERT", u, 0)

\* C15: over every sequence of runs, with any options and failures, the
\* durable bookkeeping holds at most one record per version, and each run
\* leaves the durable records as it found them at its start or, having
\* committed, leaves the records it found at detection followed by records
\* of units of the catalog that it executed in full.
C15_RecordsOfCommittedUnits ==
  LET rows == db.committed.rows
  IN  /\ \A i, j \in 1..Len(rows) : i # j => rows[i] # rows[j]
      /\ \/ rows = committedAtStart.rows
         \/ /\ Committed
            /\ SubSeq(rows, 1, Len(FoundRecords)) = FoundRecords
            /\ \A i \in (Len(FoundRecords) + 1)..Len(rows) :
                 \E u \in 1..Len(started), k \in 1..Len(catalog) :
                   /\ started[u] = rows[i]
                   /\ catalog[k].version = rows[i]
                   /\ ExecutedInFull(u, catalog[k])

\* The second of two runs that committed: the first applied the units, the
\* second reset the bookkeeping and applied them again.
C15_Witness ==
  /\ runs = 2 /\ prev.plain /\ prev.ok /\ prev.units = 2
  /\ cfg.reset /\ Committed
  /\ Len(db.committed.rows) = 2

\* C16 (as claimed): at no point of a run are two statements outstanding on
\* the session, the statements of initialize and of the detection recovery
\* included.
C16_NeverTwoOutstanding == Len(outstanding) <= 1

\* The statements at places i - 1 and i of the log are a pair that Q.all
\* sends together.
SentTogether(i) ==
  /\ i > 1
  /\ log[i - 1].op = "issue"
  /\ <<log[i - 1].kind, log[i].kind>> \in
       { <<"CREATE SCHEMA", "CREATE TABLE">>, <<"ROLLBACK", "BEGIN">> }

\* C16 amended: a statement is issued only when every statement issued
\* before it has completed, except that initialize sends its two schema
\* statements together and the detection recovery sends ROLLBACK and BEGIN
\* together; so at most two statements are outstanding, two only at those
\* points, and after a failure of the first of a pair the second is still
\* in the queue when the run ends.
C16_SequentialButForPairs ==
  /\ Len(outstanding) <= 2
  /\ Len(outstanding) = 2 =>
       \/ pc = "initializing" /\ outstanding = <<"CREATE SCHEMA", "CREATE TABLE">>
       \/ pc = "recovering" /\ outstanding = <<"ROLLBACK", "BEGIN">>
  /\ (Len(outstanding) = 1 /\ pc \in {"fin", "done"}) =>
       outstanding \in { <<"CREATE TABLE">>, <<"BEGIN">> }
  /\ \A i \in 1..Len(log) :
       log[i].op = "issue" =>
         \/ Len(Issues(SubSeq(log, 1, i - 1))) = Len(Completions(SubSeq(log, 1, i - 1)))
         \/ SentTogether(i)

\* A group unit has run two steps and load its second script, each sent
\* with nothing else outstanding, after initialize had two outstanding.
C16_Witness ==
  /\ pc = "loading" /\ loadIdx = 2
  /\ outstanding = <<"SCRIPT">>
  /\ \E i \in 1..Len(log) : log[i] = Ev("ok", "PROCEDURE", 1, 2)

\* The entries of the log that start a step of a unit: a statement issued
\* for it, or a procedure that threw.
StartsStep(e) == e.op \in {"issue", "throw"} /\ e.unit > 0 /\ e.kind # "INSERT"

\* C17: the units are started in ascending version order; a step of a unit
\* is the file at its place of the unit's listing and starts only after the
\* step before it succeeded, the first step of a unit only after the INSERT
\* of the unit before it completed; the INSERT of a unit is issued only
\* after all its steps succeeded; and once a step failed or threw no INSERT
\* is issued for its unit and nothing more is started for any unit.
C17_UnitsAndStepsInOrder ==
  /\ \A i, j \in 1..Len(started) : i < j => VNum(started[i]) <= VNum(started[j])
  /\ \A i \in 1..Len(log) :
       LET e == log[i]
       IN  /\ StartsStep(e) =>
                /\ e.unit <= Len(NewerUnits)
                /\ e.step <= Len(NewerUnits[e.unit].files)
                /\ e.kind = StepStatement(NewerUnits[e.unit].files[e.step])
                /\ e.step > 1 => SucceededBefore(i, e.unit, e.step - 1)
                /\ (e.step = 1 /\ e.unit > 1) =>
                     \E k \in 1..(i - 1) : log[k] = Ev("ok", "INSERT", e.unit - 1, 0)
           /\ e = Ev("issue", "INSERT", e.unit, 0) =>
                /\ e.unit \in 1..Len(NewerUnits)
                /\ \A s \in 1..Len(NewerUnits[e.unit].files) :
                     SucceededBefore(i, e.unit, s)
           /\ (e.op \in {"fail", "throw"} /\ e.unit > 0) =>
                /\ e.kind # "INSERT" =>
                     \A k \in 1..Len(log) : log[k] # Ev("issue", "INSERT", e.unit, 0)
                /\ \A k \in (i + 1)..Len(log) : log[k].unit = 0

\* A group unit ran its two steps and was recorded, then the step of the
\* next unit failed and the run ended.
C17_Witness ==
  /\ pc = "done"
  /\ \E i \in 1..Len(log) : log[i] = Ev("ok", "PROCEDURE", 1, 2)
  /\ \E i \in 1..Len(log) : log[i] = Ev("ok", "INSERT", 1, 0)
  /\ \E i \in 1..Len(log) : log[i] = Ev("fail", "SCRIPT", 2, 1)

\* C18 (as claimed): the version check compares was read after the
\* transaction was finalized, so it is the greatest version durably
\* recorded, and in a dry run it is the one recorded before the run.
C18_VerifiesDurableVersion ==
  verdict # "none" =>
    /\ detected = MaxSatisfying(Recorded(db.committed))
    /\ cfg.dryRun => detected = MaxSatisfying(Recorded(committedAtStart))

\* The entry of the log for script k of config.load, issued, completed or
\* failed.
LoadEv(op, k) == Ev(op, "SCRIPT", 0, k)

\* C19: the scripts of config.load are sent in the order given, each after
\* the one before it succeeded, after every pending unit was recorded and
\* before any COMMIT, and no INSERT nor statement of a unit follows them; a
\* run that gets past loading, with or without migrate, has run them all;
\* a script that fails is the last statement the run sends, and the run
\* ends rejected.
C19_LoadInOrderBeforeCommit ==
  /\ \A i \in 1..Len(log) :
       \A k \in 1..MaxLoad + 1 :
         /\ log[i] = LoadEv("issue", k) =>
              /\ k <= cfg.load
              /\ k > 1 => SucceededBefore(i, 0, k - 1)
              /\ cfg.migrate =>
                   /\ migrations = <<>>
                   /\ \A u \in 1..Len(NewerUnits) :
                        \E j \in 1..(i - 1) : log[j] = Ev("ok", "INSERT", u, 0)
              /\ \A j \in 1..(i - 1) : log[j].kind # "COMMIT"
              /\ \A j \in (i + 1)..Len(log) :
                   log[j].kind # "INSERT" /\ log[j].unit = 0
         /\ log[i] = LoadEv("fail", k) =>
              /\ \A j \in (i + 1)..Len(log) : log[j].op # "issue"
              /\ pc \in {"fin", "done"}
              /\ error = "StatementError"
              /\ pc = "done" => result = "rejected"
  /\ (pc \in {"finish", "finishing", "check", "checking"} \/ CommitsIssued # {}) =>
       \A k \in 1..cfg.load : \E i \in 1..Len(log) : log[i] = LoadEv("ok", k)

\* A run without migrate has loaded its two scripts in order and committed.
C19_Witness ==
  /\ pc = "done" /\ ~cfg.migrate /\ cfg.load = 2
  /\ \E i, j \in 1..Len(log) :
       i < j /\ log[i] = LoadEv("ok", 1) /\ log[j] = LoadEv("issue", 2)
  /\ Committed

\* The statements migrate sends for a sequence of units when nothing fails:
\* the steps of each unit and its INSERT.
RECURSIVE Plan(_)
Plan(units) ==
  IF units = <<>> THEN <<>>
  ELSE StepStatements(Head(units)) \o <<"INSERT">> \o Plan(Tail(units))

IsPrefix(s, t) == Len(s) <= Len(t) /\ s = SubSeq(t, 1, Len(s))

\* Run r is as it would be alone: the handler of each of its steps is
\* attached to the promise of a statement of its own, what it issued is the
\* beginning of its own plan and the whole plan if it was fulfilled, and it
\* was rejected only by a failure of its own.
AsAlone(r) ==
  /\ \A i \in 1..Len(pair[r].chained) : pair[r].chained[i].run = r
  /\ IsPrefix(pair[r].issued, Plan(catalog))
  /\ pair[r].outcome = "fulfilled" => pair[r].issued = Plan(catalog)
  /\ pair[r].outcome = "rejected" => pair[r].failed

\* C20 (as claimed): of two runs interleaved in one process, each issues
\* the statements and ends with the outcome it has when it runs alone; in
\* particular no run is ended by what happens in the other.
C20_IndependentRuns ==
  \A r \in Runs :
    /\ AsAlone(r)
    /\ pair[r].outcome = "killed" => pair[r].failed

=============================================================================
